---- MODULE Spec2Model ----
(***************************************************************************)
(* Model of the messaging routes (src/src/routes/messages.js) and of the   *)
(* location-alert routes (src/unnamed/part_000).                           *)
(*                                                                         *)
(* The relational store is the shared state: one variable per table, a     *)
(* table being the sequence of its rows in insertion order; the soft-delete *)
(* marks, which carry no id that is read, are a set of rows.  A SERIAL id  *)
(* is the next value of the table's sequence: the store draws it when it   *)
(* forms the row of an INSERT, before it looks at conflicts and            *)
(* constraints, and never gives it back, so an upsert that meets a         *)
(* conflict and an INSERT that a constraint rejects use up a value too.    *)
(* Rows that reference a user are deleted with the user (ON DELETE         *)
(* CASCADE), and an INSERT that references a row that is not there is      *)
(* rejected.                                                               *)
(* Every route handler is a process that runs in a request slot.  A        *)
(* handler's step is one `await query(...)` together with the JavaScript   *)
(* that follows it up to the next query or to the response: the store      *)
(* executes each statement atomically (autocommit, no transaction is ever  *)
(* opened), and handlers of different requests interleave between their    *)
(* statements.  The first step of a handler also contains the request's    *)
(* arrival and the validation that precedes the first query.               *)
(***************************************************************************)
EXTENDS Integers, Sequences, FiniteSets, TLC

VARIABLES
    users,          \* table users
    invitations,    \* table chat_invitations
    conversations,  \* table conversations
    messages,       \* table messages
    deletedBy,      \* table conversation_deleted_by
    contacts,       \* table user_contacts
    alerts,         \* table location_alerts
    tracking,       \* table location_tracking
    seq,            \* the last value drawn from the sequence of each SERIAL id
    now,            \* the store's clock, read by NOW() and CURRENT_TIMESTAMP
    h,              \* the handler in flight in each request slot
    last            \* the response sent in the latest step, if any

vars == <<users, invitations, conversations, messages, deletedBy, contacts,
          alerts, tracking, seq, now, h, last>>

msgTables == <<messages, deletedBy>>
locTables == <<contacts, alerts, tracking>>

-----------------------------------------------------------------------------
(* Bounds of the model: the values a sequence may reach, which bounds the   *)
(* rows its table is ever given, and the values of the clock                *)

MaxUsers == 4

MaxInvitations == 2

MaxConversations == 2

MaxMessages == 2

MaxContacts == 3

MaxAlerts == 2

MaxTime == 2

\* the ids of the rows table users holds when a run starts
Users == {1, 2, 3}

\* an id that is no row of table users when a run starts: the id of the first
\* user to register
NonUsers == {4}

\* the string that spells the number n, as a value of a request's JSON body
\* (a number is itself, a value that is missing is 0)
StringOf(n) == 0 - n

\* the integer the store reads from a parameter that is bound to an INT column
ToInteger(v) == IF v < 0 THEN 0 - v ELSE v

\* what a request may name as a user: a user, no user, nothing (0), or the
\* id of a user as a string
UserIds == Users \cup NonUsers \cup {0} \cup {StringOf(u) : u \in Users}

\* the ids of table admin_accounts: the two accounts that the initialization
\* inserts, both active; no route changes the table
AdminAccounts == {1, 2}

\* the addresses of the users of a run: those of Users, and one more
Emails == <<"admin@example.com", "b@example.com", "c@example.com", "d@example.com">>

\* password.length < 6
MinPasswordLength == 6

\* the users whose requests overlap in the concurrent specifications
Pair == {1, 2}

\* the request slots: at most this many handlers are in flight at once
Slots == {1, 2}

-----------------------------------------------------------------------------
(* Generic helpers *)

Range(f) == {f[i] : i \in DOMAIN f}

\* the rows of a table that carry an id: one, or none
WithId(tbl, id) == {r \in Range(tbl) : r.id = id}

Min(a, b) == IF a < b THEN a ELSE b

Max(a, b) == IF a < b THEN b ELSE a

\* a slot in which no handler runs
Idle == [op |-> "idle", pc |-> "idle", userId |-> 0, id |-> 0,
         body |-> <<>>, rows |-> <<>>, marks |-> {}]

NoResponse == [op |-> "none", userId |-> 0, id |-> 0, body |-> <<>>, code |-> 0,
               rows |-> <<>>, marks |-> {}]

\* a request is taken by the lowest slot in which no handler runs
Free(s) == h[s].pc = "idle" /\ \A s2 \in Slots : s2 < s => h[s2].pc # "idle"

\* the handler of slot s awaits its next query
Await(s, op, pc, userId, id, body, rows, marks) ==
    h' = [h EXCEPT ![s] = [op |-> op, pc |-> pc, userId |-> userId, id |-> id,
                           body |-> body, rows |-> rows, marks |-> marks]]

Goto(s, pc) == h' = [h EXCEPT ![s].pc = pc]

\* the handler of slot s answers a request with the given body:
\* res.status(code).json(...)
\* (marks is a ghost: the soft-delete marks the handler's DELETE removed, a
\* row count that the code discards)
RespondTo(s, op, userId, id, body, code, rows) ==
    /\ h' = [h EXCEPT ![s] = Idle]
    /\ last' = [op |-> op, userId |-> userId, id |-> id, body |-> body, code |-> code,
                rows |-> rows, marks |-> h[s].marks]

\* the handler of slot s answers the request it keeps in the slot
Respond(s, op, userId, id, code, rows) ==
    RespondTo(s, op, userId, id, h[s].body, code, rows)

Silent == last' = NoResponse

\* nextval of the sequence of a table's SERIAL id
NextVal(table) == seq[table] + 1

\* the statement draws the next value of the sequence
Draw(table) == seq' = [seq EXCEPT ![table] = @ + 1]

\* SELECT id FROM users WHERE id = $1
SelectUser(id) == SelectSeq(users, LAMBDA u : u.id = ToInteger(id))

\* the row a foreign key to users(id) refers to exists
IsUser(id) == \E i \in DOMAIN users : users[i].id = id

-----------------------------------------------------------------------------
(* Statements on users *)

\* SELECT id FROM users WHERE email = $1
SelectUserByEmail(email) == SelectSeq(users, LAMBDA u : u.email = email)

\* INSERT INTO users (email, password_hash, ...) VALUES ($1, $2, ...)
InsertUser(tbl, email) == Append(tbl, [id |-> NextVal("users"), email |-> email])

\* DELETE FROM users WHERE id = $1
DeleteUserRow(tbl, userId) == SelectSeq(tbl, LAMBDA u : u.id # userId)

\* what ON DELETE CASCADE leaves of the tables that reference users(id) when
\* the row of a user is deleted, and of those that reference conversations(id)
\* when the conversations of the user are
CascadeInvitations(tbl, userId) ==
    SelectSeq(tbl, LAMBDA r : r.sender_id # userId /\ r.receiver_id # userId)

CascadeConversations(tbl, userId) ==
    SelectSeq(tbl, LAMBDA c : c.user1_id # userId /\ c.user2_id # userId)

CascadeMessages(tbl, userId) ==
    SelectSeq(tbl, LAMBDA m :
        /\ m.sender_id # userId
        /\ \E c \in Range(CascadeConversations(conversations, userId)) :
              c.id = m.conversation_id)

CascadeDeletions(tbl, userId) ==
    {d \in tbl :
        /\ d.user_id # userId
        /\ \E c \in Range(CascadeConversations(conversations, userId)) :
              c.id = d.conversation_id}

CascadeContacts(tbl, userId) ==
    SelectSeq(tbl, LAMBDA c : c.user_id # userId /\ c.contact_user_id # userId)

CascadeAlerts(tbl, userId) ==
    SelectSeq(tbl, LAMBDA a : a.user_id # userId /\ a.contact_user_id # userId)

CascadeTracking(tbl, userId) ==
    SelectSeq(tbl, LAMBDA lt : lt.user_id # userId)

\* the sequence has a value for each registration in flight and for one more
UserRoom ==
    seq.users + Cardinality({s \in Slots : h[s].op = "register"}) < MaxUsers

-----------------------------------------------------------------------------
(* POST /register *)

\* (the password is given by its length, a missing one by 0; the address that
\* is missing is "")
RegisterCheck(s, email, passwordLength) ==
    /\ Free(s)
    /\ UNCHANGED <<users, invitations, conversations, msgTables, locTables, seq, now>>
    /\ IF email = "" \/ passwordLength = 0
       THEN RespondTo(s, "register", 0, 0, <<email, passwordLength>>, 400, <<>>)
       ELSE IF passwordLength < MinPasswordLength
       THEN RespondTo(s, "register", 0, 0, <<email, passwordLength>>, 400, <<>>)
       ELSE IF SelectUserByEmail(email) # <<>>
       THEN RespondTo(s, "register", 0, 0, <<email, passwordLength>>, 409, <<>>)
       ELSE /\ UserRoom
            /\ Await(s, "register", "insert", 0, 0, <<email, passwordLength>>, <<>>, {})
            /\ Silent

\* email is UNIQUE: a statement that the constraint rejects throws, and the
\* catch block answers 500
RegisterInsert(s) ==
    /\ h[s].op = "register" /\ h[s].pc = "insert"
    /\ Draw("users")
    /\ IF SelectUserByEmail(h[s].body[1]) = <<>>
       THEN /\ users' = InsertUser(users, h[s].body[1])
            /\ Respond(s, "register", 0, 0, 201, <<users'[Len(users')]>>)
       ELSE /\ users' = users
            /\ Respond(s, "register", 0, 0, 500, <<>>)
    /\ UNCHANGED <<invitations, conversations, msgTables, locTables, now>>

-----------------------------------------------------------------------------
(* DELETE /users/:userId *)

DeleteUserCheck(s, requestingUserId, userId) ==
    /\ Free(s)
    /\ UNCHANGED <<users, invitations, conversations, msgTables, locTables, seq, now>>
    /\ IF requestingUserId \notin AdminAccounts
       THEN Respond(s, "deleteUser", requestingUserId, userId, 403, <<>>)
       ELSE IF userId = requestingUserId
       THEN Respond(s, "deleteUser", requestingUserId, userId, 400, <<>>)
       ELSE /\ Await(s, "deleteUser", "select", requestingUserId, userId, <<>>, <<>>, {})
            /\ Silent

DeleteUserSelect(s) ==
    /\ h[s].op = "deleteUser" /\ h[s].pc = "select"
    /\ UNCHANGED <<users, invitations, conversations, msgTables, locTables, seq, now>>
    /\ IF SelectUser(h[s].id) = <<>>
       THEN Respond(s, "deleteUser", h[s].userId, h[s].id, 404, <<>>)
       ELSE Goto(s, "delete") /\ Silent

DeleteUserDelete(s) ==
    /\ h[s].op = "deleteUser" /\ h[s].pc = "delete"
    /\ users' = DeleteUserRow(users, h[s].id)
    /\ invitations' = CascadeInvitations(invitations, h[s].id)
    /\ conversations' = CascadeConversations(conversations, h[s].id)
    /\ messages' = CascadeMessages(messages, h[s].id)
    /\ deletedBy' = CascadeDeletions(deletedBy, h[s].id)
    /\ contacts' = CascadeContacts(contacts, h[s].id)
    /\ alerts' = CascadeAlerts(alerts, h[s].id)
    /\ tracking' = CascadeTracking(tracking, h[s].id)
    /\ Respond(s, "deleteUser", h[s].userId, h[s].id, 200, <<>>)
    /\ UNCHANGED <<seq, now>>

\* the handlers of the account routes in slot s: the addresses Es register
\* with a password or without, the users As ask to delete the users Vs
RegisterStep(s, Es) ==
    \/ \E e \in Es, p \in {0, MinPasswordLength - 1, MinPasswordLength} :
          RegisterCheck(s, e, p)
    \/ RegisterInsert(s)

DeleteUserStep(s, As, Vs) ==
    \/ \E a \in As, v \in Vs : DeleteUserCheck(s, a, v)
    \/ DeleteUserSelect(s)
    \/ DeleteUserDelete(s)

-----------------------------------------------------------------------------
(* Statements on chat_invitations and conversations *)

\* SELECT * FROM chat_invitations WHERE id = $1
SelectInvitation(id) == SelectSeq(invitations, LAMBDA r : r.id = id)

\* mutant: the conflict clause leaves the existing row as it is (DO NOTHING)
UpsertInvitationKeepsStatus(tbl, senderId, receiverId) ==
    IF \E i \in DOMAIN tbl : tbl[i].sender_id = senderId /\ tbl[i].receiver_id = receiverId
    THEN tbl
    ELSE Append(tbl, [id |-> NextVal("invitations"), sender_id |-> senderId,
                      receiver_id |-> receiverId, status |-> "pending"])

\* INSERT INTO chat_invitations ... VALUES ($1, $2, 'pending')
\* ON CONFLICT (sender_id, receiver_id) DO UPDATE SET status = 'pending'
UpsertInvitation(tbl, senderId, receiverId) ==
    IF \E i \in DOMAIN tbl : tbl[i].sender_id = senderId /\ tbl[i].receiver_id = receiverId
    THEN [i \in DOMAIN tbl |->
            IF tbl[i].sender_id = senderId /\ tbl[i].receiver_id = receiverId
            THEN [tbl[i] EXCEPT !.status = "pending"]
            ELSE tbl[i]]
    ELSE Append(tbl, [id |-> NextVal("invitations"), sender_id |-> senderId,
                      receiver_id |-> receiverId, status |-> "pending"])

\* UPDATE chat_invitations SET status = $1, updated_at = NOW() WHERE id = $2
UpdateInvitationStatus(tbl, status, id) ==
    [i \in DOMAIN tbl |-> IF tbl[i].id = id THEN [tbl[i] EXCEPT !.status = status]
                          ELSE tbl[i]]

\* mutant: the insert without its conflict clause and unique constraint
InsertConversationAlways(tbl, user1, user2, t) ==
    Append(tbl, [id |-> NextVal("conversations"), user1_id |-> user1, user2_id |-> user2,
                 updated_at |-> t])

\* mutant: the insert with the two users in the other columns
InsertConversationSwapped(tbl, user1, user2, t) ==
    IF \E i \in DOMAIN tbl : tbl[i].user1_id = user2 /\ tbl[i].user2_id = user1
    THEN tbl
    ELSE Append(tbl, [id |-> NextVal("conversations"), user1_id |-> user2, user2_id |-> user1,
                      updated_at |-> t])

\* INSERT INTO conversations (user1_id, user2_id) VALUES ($1, $2)
\* ON CONFLICT (user1_id, user2_id) DO NOTHING: the table afterwards
InsertConversation(tbl, user1, user2, t) ==
    IF \E i \in DOMAIN tbl : tbl[i].user1_id = user1 /\ tbl[i].user2_id = user2
    THEN tbl
    ELSE Append(tbl, [id |-> NextVal("conversations"), user1_id |-> user1, user2_id |-> user2,
                      updated_at |-> t])

\* ... RETURNING *: the row the statement inserted, none on a conflict
InsertedRows(before, after) ==
    SubSeq(after, Len(before) + 1, Len(after))

\* the fields of the invitation row that the accept handler reads after its
\* first query (invitation.sender_id, invitation.receiver_id)
Parties(invitation) ==
    [sender_id |-> invitation.sender_id, receiver_id |-> invitation.receiver_id]

\* mutant: the receiver check is missing
IsReceiverAnyone(invitation, userId) == TRUE

\* the receiver alone may accept or decline (invitation.receiver_id !== userId)
IsReceiver(invitation, userId) == invitation.receiver_id = userId

\* the sender alone may cancel (invitation.sender_id !== userId)
IsSender(invitation, userId) == invitation.sender_id = userId

\* mutant: the status check is missing
IsPendingAlways(invitation) == TRUE

\* only a pending invitation is canceled (invitation.status !== 'pending')
IsPending(invitation) == invitation.status = "pending"

\* sender_id and receiver_id REFERENCES users(id),
\* CONSTRAINT different_users CHECK (sender_id != receiver_id)
AdmitsInvitation(senderId, receiverId) ==
    IsUser(senderId) /\ IsUser(receiverId) /\ senderId # receiverId

\* user1_id and user2_id REFERENCES users(id),
\* CONSTRAINT different_users CHECK (user1_id != user2_id)
AdmitsConversation(user1, user2) ==
    IsUser(user1) /\ IsUser(user2) /\ user1 # user2

\* the sequence has a value for each upsert in flight and for one more
InvitationRoom ==
    seq.invitations
      + Cardinality({s \in Slots : h[s].op = "sendInvitation"}) < MaxInvitations

\* the sequence has a value for each accept in flight and for one more
ConversationRoom ==
    seq.conversations
      + Cardinality({s \in Slots : h[s].op = "accept"}) < MaxConversations

-----------------------------------------------------------------------------
(* POST /send-invitation *)

\* (senderId === receiverId holds for the number alone, not for the string
\* that spells it; the handler keeps the id the store reads from receiverId)
SendInvitationCheck(s, userId, receiverId) ==
    /\ Free(s)
    /\ UNCHANGED <<invitations, conversations, msgTables, locTables, users, seq, now>>
    /\ IF receiverId = 0 \/ userId = receiverId
       THEN RespondTo(s, "sendInvitation", userId, ToInteger(receiverId),
                      <<receiverId>>, 400, <<>>)
       ELSE IF SelectUser(receiverId) = <<>>
       THEN RespondTo(s, "sendInvitation", userId, ToInteger(receiverId),
                      <<receiverId>>, 404, <<>>)
       ELSE /\ InvitationRoom
            /\ Await(s, "sendInvitation", "upsert", userId, ToInteger(receiverId),
                     <<receiverId>>, <<>>, {})
            /\ Silent

\* a statement that a constraint rejects throws: the catch block answers 500
SendInvitationUpsert(s) ==
    /\ h[s].op = "sendInvitation" /\ h[s].pc = "upsert"
    /\ Draw("invitations")
    /\ IF AdmitsInvitation(h[s].userId, h[s].id)
       THEN /\ invitations' = UpsertInvitation(invitations, h[s].userId, h[s].id)
            /\ Respond(s, "sendInvitation", h[s].userId, h[s].id, 201,
                       SelectSeq(invitations', LAMBDA r : r.sender_id = h[s].userId
                                                          /\ r.receiver_id = h[s].id))
       ELSE /\ invitations' = invitations
            /\ Respond(s, "sendInvitation", h[s].userId, h[s].id, 500, <<>>)
    /\ UNCHANGED <<conversations, msgTables, locTables, users, now>>

-----------------------------------------------------------------------------
(* POST /invitations/:invitationId/accept *)

AcceptSelect(s, userId, invitationId) ==
    /\ Free(s)
    /\ UNCHANGED <<invitations, conversations, msgTables, locTables, users, seq, now>>
    /\ LET invitationResult == SelectInvitation(invitationId) IN
       IF invitationResult = <<>>
       THEN Respond(s, "accept", userId, invitationId, 404, <<>>)
       ELSE IF ~IsReceiver(invitationResult[1], userId)
       THEN Respond(s, "accept", userId, invitationId, 403, <<>>)
       ELSE /\ ConversationRoom
            /\ Await(s, "accept", "update", userId, invitationId, <<>>,
                     <<Parties(invitationResult[1])>>, {})
            /\ Silent

AcceptUpdate(s) ==
    /\ h[s].op = "accept" /\ h[s].pc = "update"
    /\ invitations' = UpdateInvitationStatus(invitations, "accepted", h[s].id)
    /\ Goto(s, "insert")
    /\ Silent
    /\ UNCHANGED <<conversations, msgTables, locTables, users, seq, now>>

\* a statement that a constraint rejects throws: the catch block answers 500
AcceptInsert(s) ==
    /\ h[s].op = "accept" /\ h[s].pc = "insert"
    /\ Draw("conversations")
    /\ LET invitation == h[s].rows[1]
           user1 == Min(invitation.sender_id, invitation.receiver_id)
           user2 == Max(invitation.sender_id, invitation.receiver_id)
       IN  IF AdmitsConversation(user1, user2)
           THEN /\ conversations' = InsertConversation(conversations, user1, user2, now)
                /\ Respond(s, "accept", h[s].userId, h[s].id, 200,
                           InsertedRows(conversations, conversations'))
           ELSE /\ conversations' = conversations
                /\ Respond(s, "accept", h[s].userId, h[s].id, 500, <<>>)
    /\ UNCHANGED <<invitations, msgTables, locTables, users, now>>

\* the query of the handler's next statement throws (the store or the
\* connection fails): the catch block answers 500 and the statement has no
\* effect
AcceptQueryFails(s) ==
    /\ h[s].op = "accept"
    /\ Respond(s, "accept", h[s].userId, h[s].id, 500, <<>>)
    /\ UNCHANGED <<invitations, conversations, msgTables, locTables, users, seq, now>>

-----------------------------------------------------------------------------
(* POST /invitations/:invitationId/decline *)

DeclineSelect(s, userId, invitationId) ==
    /\ Free(s)
    /\ UNCHANGED <<invitations, conversations, msgTables, locTables, users, seq, now>>
    /\ LET invitationResult == SelectInvitation(invitationId) IN
       IF invitationResult = <<>>
       THEN Respond(s, "decline", userId, invitationId, 404, <<>>)
       ELSE IF ~IsReceiver(invitationResult[1], userId)
       THEN Respond(s, "decline", userId, invitationId, 403, <<>>)
       ELSE /\ Await(s, "decline", "update", userId, invitationId, <<>>, <<>>, {})
            /\ Silent

DeclineUpdate(s) ==
    /\ h[s].op = "decline" /\ h[s].pc = "update"
    /\ invitations' = UpdateInvitationStatus(invitations, "declined", h[s].id)
    /\ Respond(s, "decline", h[s].userId, h[s].id, 200, <<>>)
    /\ UNCHANGED <<conversations, msgTables, locTables, users, seq, now>>

-----------------------------------------------------------------------------
(* POST /invitations/:invitationId/cancel *)

CancelSelect(s, userId, invitationId) ==
    /\ Free(s)
    /\ UNCHANGED <<invitations, conversations, msgTables, locTables, users, seq, now>>
    /\ LET invitationResult == SelectInvitation(invitationId) IN
       IF invitationResult = <<>>
       THEN Respond(s, "cancel", userId, invitationId, 404, <<>>)
       ELSE IF ~IsSender(invitationResult[1], userId)
       THEN Respond(s, "cancel", userId, invitationId, 403, <<>>)
       ELSE IF ~IsPending(invitationResult[1])
       THEN Respond(s, "cancel", userId, invitationId, 400, <<>>)
       ELSE /\ Await(s, "cancel", "update", userId, invitationId, <<>>, <<>>, {})
            /\ Silent

CancelUpdate(s) ==
    /\ h[s].op = "cancel" /\ h[s].pc = "update"
    /\ invitations' = UpdateInvitationStatus(invitations, "canceled", h[s].id)
    /\ Respond(s, "cancel", h[s].userId, h[s].id, 200, <<>>)
    /\ UNCHANGED <<conversations, msgTables, locTables, users, seq, now>>

-----------------------------------------------------------------------------
(* The invitation handshake: specifications *)

\* the store after the tables are created and the users of Users have
\* registered
InitEmpty ==
    /\ users = [i \in 1 .. Cardinality(Users) |-> [id |-> i, email |-> Emails[i]]]
    /\ seq = [users |-> Cardinality(Users), invitations |-> 0, conversations |-> 0,
              messages |-> 0, contacts |-> 0, alerts |-> 0]
    /\ invitations = <<>>
    /\ conversations = <<>>
    /\ messages = <<>>
    /\ deletedBy = {}
    /\ contacts = <<>>
    /\ alerts = <<>>
    /\ tracking = <<>>
    /\ now = 0
    /\ h = [s \in Slots |-> Idle]
    /\ last = NoResponse

InvitationIds == 1 .. (MaxInvitations + 1)

\* the handlers of the invitation routes in slot s: the users Ss send
\* invitations to the ids Rs, the users U accept, decline and cancel
InvStep(s, Ss, Rs, U) ==
    \/ \E u \in Ss, r \in Rs : SendInvitationCheck(s, u, r)
    \/ SendInvitationUpsert(s)
    \/ \E u \in U, i \in InvitationIds : AcceptSelect(s, u, i)
    \/ AcceptUpdate(s)
    \/ AcceptInsert(s)
    \/ \E u \in U, i \in InvitationIds : DeclineSelect(s, u, i)
    \/ DeclineUpdate(s)
    \/ \E u \in U, i \in InvitationIds : CancelSelect(s, u, i)
    \/ CancelUpdate(s)

\* requests are served one at a time: users 1 and 2 invite each other, ids
\* that are no user and their own id spelled as a string; every user accepts,
\* declines and cancels; accounts are registered, and users 1 and 3 ask for
\* the deletion of users 1 and 2
NextInvSeq ==
    \/ InvStep(1, Pair, Pair \cup NonUsers \cup {0, StringOf(1)}, Users)
    \/ RegisterStep(1, {Emails[2], Emails[4]})
    \/ DeleteUserStep(1, {1, 3}, {1, 2})

\* requests are served concurrently: the handlers interleave at their
\* queries, those of user 1 deleting user 2 among them
NextInvConc ==
    \E s \in Slots :
       \/ InvStep(s, Pair, Pair, Pair)
       \/ DeleteUserStep(s, {1}, {2})

SpecInvSeq == InitEmpty /\ [][NextInvSeq]_vars

SpecInvConc == InitEmpty /\ [][NextInvConc]_vars

\* user 1 invites user 2, both accept, decline and cancel, a query of an
\* accept may fail, and user 1 deletes user 2; requests are served one at a
\* time
NextInvAbort ==
    \/ InvStep(1, {1}, {2}, Pair)
    \/ AcceptQueryFails(1)
    \/ DeleteUserStep(1, {1}, {2})

SpecInvAbort == InitEmpty /\ [][NextInvAbort]_vars

-----------------------------------------------------------------------------
(* Properties of the invitation handshake *)

\* the conversation rows of the unordered pair {a, b}
ConversationsOf(a, b) ==
    {i \in DOMAIN conversations :
        {conversations[i].user1_id, conversations[i].user2_id} = {a, b}}

AcceptedNow == last.op = "accept" /\ last.code = 200

\* C2: however the statements of two accept handlers of the same invitation
\* interleave, no pair of users ever has two conversation rows, and once an
\* accept has answered with success the pair of its invitation has exactly one.
C2_OneConversationAfterDoubleAccept ==
    /\ \A a \in Users, b \in Users : Cardinality(ConversationsOf(a, b)) <= 1
    /\ AcceptedNow =>
         \A r \in WithId(invitations, last.id) :
            Cardinality(ConversationsOf(r.sender_id, r.receiver_id)) = 1

\* two accepts of one invitation overlap: the second handler has inserted the
\* conversation while the first is between its UPDATE and its INSERT
C2_Witness ==
    /\ AcceptedNow /\ last.rows # <<>>
    /\ WithId(invitations, last.id) # {}
    /\ \E s \in Slots : h[s].op = "accept" /\ h[s].pc = "insert" /\ h[s].id = last.id

\* C3: every accept that answers with success carries the conversation row of
\* the invitation's pair, also when that row existed before the call.
C3_AcceptReturnsConversation ==
    AcceptedNow =>
        \A r \in WithId(invitations, last.id) :
           /\ Len(last.rows) = 1
           /\ \E i \in ConversationsOf(r.sender_id, r.receiver_id) :
                 last.rows[1] = conversations[i]

\* C7: an invitation that is accepted, declined or canceled changes its status
\* only by being reset to pending (a re-sent invitation).
C7_ResolvedIsTerminal ==
    [][\A r \in Range(invitations) : \A r2 \in WithId(invitations', r.id) :
          (r.status # "pending" /\ r2.status # r.status) => r2.status = "pending"]_vars

\* C8: an accept or decline by a user who is not the receiver, and a cancel by
\* a user who is not the sender, is answered 403 and changes neither the
\* invitations nor the conversations.
C8_PermissionDenied ==
    [][/\ (/\ last'.op \in {"accept", "decline"}
           /\ \E r \in WithId(invitations, last'.id) : r.receiver_id # last'.userId)
          => (last'.code = 403 /\ UNCHANGED <<invitations, conversations>>)
       /\ (/\ last'.op = "cancel"
           /\ \E r \in WithId(invitations, last'.id) : r.sender_id # last'.userId)
          => (last'.code = 403 /\ UNCHANGED <<invitations, conversations>>)
       /\ (last'.op \in {"accept", "decline", "cancel"} /\ last'.code = 403)
          => UNCHANGED <<invitations, conversations>>]_vars

\* a user who is neither sender nor receiver of a pending invitation has
\* tried to accept it and was refused
C8_Witness ==
    /\ last.op = "accept" /\ last.code = 403
    /\ \E r \in WithId(invitations, last.id) :
          /\ r.status = "pending"
          /\ last.userId \notin {r.sender_id, r.receiver_id}

\* C9: a cancel by the sender is answered 400 and changes nothing when the
\* invitation is not pending, and sets the status to canceled when it is.
C9_CancelOnlyPending ==
    [][\A r \in WithId(invitations, last'.id) :
          (last'.op = "cancel" /\ r.sender_id = last'.userId)
          => IF r.status = "pending"
             THEN /\ last'.code = 200
                  /\ \A r2 \in WithId(invitations', r.id) : r2.status = "canceled"
                  /\ WithId(invitations', r.id) # {}
             ELSE last'.code = 400 /\ invitations' = invitations]_vars

\* the sender's cancel of an accepted invitation was refused
C9_Witness ==
    /\ last.op = "cancel" /\ last.code = 400
    /\ \E r \in WithId(invitations, last.id) :
          r.status = "accepted" /\ r.sender_id = last.userId

\* C10: there is at most one invitation row per ordered (sender, receiver)
\* pair, and a send-invitation that answers with success leaves the row of its
\* pair pending and returns it.
C10_OneRowPerPairResetToPending ==
    /\ \A i \in DOMAIN invitations, j \in DOMAIN invitations :
          (/\ invitations[i].sender_id = invitations[j].sender_id
           /\ invitations[i].receiver_id = invitations[j].receiver_id) => i = j
    /\ (last.op = "sendInvitation" /\ last.code = 201) =>
          /\ Len(last.rows) = 1
          /\ last.rows[1] \in Range(invitations)
          /\ last.rows[1].sender_id = last.userId
          /\ last.rows[1].receiver_id = last.id
          /\ last.rows[1].status = "pending"

\* an invitation was re-sent after it had been accepted: its row is pending
\* again although the pair's conversation exists and no invitation in the
\* opposite direction was ever sent
C10_Witness ==
    /\ last.op = "sendInvitation" /\ last.code = 201
    /\ ConversationsOf(last.userId, last.id) # {}
    /\ ~ \E i \in DOMAIN invitations :
            invitations[i].sender_id = last.id /\ invitations[i].receiver_id = last.userId

\* the conversations between a and b, whichever column holds which
ConversationsBetween(a, b) ==
    {i \in DOMAIN conversations :
        {conversations[i].user1_id, conversations[i].user2_id} = {a, b}}

\* C11: in every reachable state each conversation row has user1_id < user2_id
\* and no unordered pair of users has two conversation rows, also when the
\* invitations in both directions were accepted.
C11_CanonicalPairOrdering ==
    /\ \A i \in DOMAIN conversations :
           conversations[i].user1_id < conversations[i].user2_id
    /\ \A i, j \in DOMAIN conversations :
           ConversationsBetween(conversations[i].user1_id, conversations[i].user2_id)
             = ConversationsBetween(conversations[j].user1_id, conversations[j].user2_id)
           => i = j

\* both directions of one pair are accepted, the later accept by the user
\* with the smaller id, and the pair has a conversation
C11_Witness ==
    /\ last.op = "accept" /\ last.code = 200
    /\ \E i, j \in DOMAIN invitations :
           /\ invitations[i].status = "accepted" /\ invitations[j].status = "accepted"
           /\ invitations[i].sender_id = invitations[j].receiver_id
           /\ invitations[i].receiver_id = invitations[j].sender_id
           /\ invitations[i].sender_id > invitations[i].receiver_id
           /\ last.userId = invitations[i].receiver_id
           /\ ConversationsBetween(invitations[i].sender_id, invitations[i].receiver_id) # {}

-----------------------------------------------------------------------------
(* Statements on conversations, messages and conversation_deleted_by *)

\* parseInt(req.query.limit) || 50
DefaultLimit == 50

\* the limit of the page: a missing (0 here) limit is the default
EffectiveLimit(limit) == IF limit = 0 THEN DefaultLimit ELSE limit

\* the same SELECT without its AND (user1_id = $2 OR user2_id = $2)
SelectConversationOfAnyone(id, userId) ==
    SelectSeq(conversations, LAMBDA c : c.id = id)

\* SELECT * FROM conversations WHERE id = $1 AND (user1_id = $2 OR user2_id = $2)
SelectConversation(id, userId) ==
    SelectSeq(conversations,
              LAMBDA c : c.id = id /\ (c.user1_id = userId \/ c.user2_id = userId))

\* mutant: the handler takes itself for the other user
OtherUserIsSelf(conversation, userId) == userId

\* conversation.user1_id === userId ? conversation.user2_id : conversation.user1_id
OtherUser(conversation, userId) ==
    IF conversation.user1_id = userId THEN conversation.user2_id
    ELSE conversation.user1_id

\* SELECT deleted_at FROM conversation_deleted_by
\* WHERE conversation_id = $1 AND user_id = $2
SelectDeletion(conversationId, userId) ==
    {d \in deletedBy : d.conversation_id = conversationId /\ d.user_id = userId}

\* the same INSERT with ON CONFLICT ... DO UPDATE SET deleted_at = NOW()
InsertDeletionRefreshing(tbl, conversationId, userId, t) ==
    {d \in tbl : ~(d.conversation_id = conversationId /\ d.user_id = userId)}
      \cup {[conversation_id |-> conversationId, user_id |-> userId, deleted_at |-> t]}

\* the same INSERT, marking the conversation for every user
InsertDeletionForEveryone(tbl, conversationId, userId, t) ==
    tbl \cup {[conversation_id |-> conversationId, user_id |-> u, deleted_at |-> t] :
                u \in {userId} \cup {d.user_id : d \in tbl} \cup Users}

\* INSERT INTO conversation_deleted_by (conversation_id, user_id) VALUES ($1, $2)
\* ON CONFLICT (conversation_id, user_id) DO NOTHING
InsertDeletion(tbl, conversationId, userId, t) ==
    IF \E d \in tbl : d.conversation_id = conversationId /\ d.user_id = userId
    THEN tbl
    ELSE tbl \cup {[conversation_id |-> conversationId, user_id |-> userId,
                    deleted_at |-> t]}

\* the same DELETE without its AND user_id = $2
DeleteDeletionOfAnyUser(tbl, conversationId, userId) ==
    {d \in tbl : d.conversation_id # conversationId}

\* DELETE FROM conversation_deleted_by WHERE conversation_id = $1 AND user_id = $2
DeleteDeletion(tbl, conversationId, userId) ==
    {d \in tbl : ~(d.conversation_id = conversationId /\ d.user_id = userId)}

\* INSERT INTO messages (conversation_id, sender_id, content, message_type)
InsertMessage(tbl, conversationId, userId, t) ==
    Append(tbl, [id |-> NextVal("messages"), conversation_id |-> conversationId,
                 sender_id |-> userId, is_read |-> FALSE, created_at |-> t])

\* UPDATE conversations SET updated_at = NOW() WHERE id = $1
TouchConversation(tbl, id, t) ==
    [i \in DOMAIN tbl |-> IF tbl[i].id = id THEN [tbl[i] EXCEPT !.updated_at = t]
                          ELSE tbl[i]]

\* mutant: the deletion filter lets the messages of the deletion instant through
AfterDeletionOrAt(m, marks) ==
    \A d \in marks : m.created_at >= d.deleted_at

\* AND m.created_at > $2, appended when the deletion check returned a row
AfterDeletion(m, marks) ==
    \A d \in marks : m.created_at > d.deleted_at

\* the rows of  SELECT m.* FROM messages m WHERE m.conversation_id = $1
\*              [AND m.created_at > $2]
VisibleMessages(conversationId, marks) ==
    {m \in Range(messages) : m.conversation_id = conversationId /\ AfterDeletion(m, marks)}

\* the orders in which ORDER BY <column> DESC may return a set of rows: rows
\* with equal keys come in any order
DescOrders(S, key) ==
    {sq \in [1 .. Cardinality(S) -> S] :
        /\ \A i, j \in DOMAIN sq : i # j => sq[i] # sq[j]
        /\ \A i, j \in DOMAIN sq : i < j => key[sq[i]] >= key[sq[j]]}

\* LIMIT limit OFFSET offset
Page(sq, limit, offset) ==
    SubSeq(sq, offset + 1, Min(Len(sq), offset + limit))

\* the rows as the store returned them
KeepOrder(sq) == sq

\* result.rows.reverse()
Reverse(sq) == [i \in DOMAIN sq |-> sq[Len(sq) + 1 - i]]

\* the sort keys: m.created_at of messages, c.updated_at of conversations
CreatedAt(S) == [m \in S |-> m.created_at]

UpdatedAt(S) == [c \in S |-> c.updated_at]

\* what the message query of GET /conversations/:id/messages may return
MessagePages(conversationId, marks, limit, offset) ==
    {Page(sq, EffectiveLimit(limit), offset) :
        sq \in DescOrders(VisibleMessages(conversationId, marks),
                          CreatedAt(VisibleMessages(conversationId, marks)))}

\* mutant: the update marks every unread message of the conversation
MarkReadAll(tbl, conversationId, userId) ==
    [i \in DOMAIN tbl |->
        IF tbl[i].conversation_id = conversationId /\ ~tbl[i].is_read
        THEN [tbl[i] EXCEPT !.is_read = TRUE] ELSE tbl[i]]

\* UPDATE messages SET is_read = TRUE
\* WHERE conversation_id = $1 AND sender_id != $2 AND is_read = FALSE
MarkRead(tbl, conversationId, userId) ==
    [i \in DOMAIN tbl |->
        IF /\ tbl[i].conversation_id = conversationId
           /\ tbl[i].sender_id # userId
           /\ ~tbl[i].is_read
        THEN [tbl[i] EXCEPT !.is_read = TRUE] ELSE tbl[i]]

\* the same SELECT without its NOT IN (SELECT ... FROM conversation_deleted_by)
ListedConversationsAll(userId) ==
    {[id |-> c.id, other_user_id |-> OtherUser(c, userId), updated_at |-> c.updated_at] :
        c \in {c \in Range(conversations) : c.user1_id = userId \/ c.user2_id = userId}}

\* the rows of GET /conversations for a user: the conversations of the user
\* that are not IN (SELECT conversation_id FROM conversation_deleted_by
\* WHERE user_id = $1), each with the other user
ListedConversations(userId) ==
    {[id |-> c.id, other_user_id |-> OtherUser(c, userId), updated_at |-> c.updated_at] :
        c \in {c \in Range(conversations) :
                 /\ c.user1_id = userId \/ c.user2_id = userId
                 /\ c.id \notin {d.conversation_id : d \in {d \in deletedBy : d.user_id = userId}}}}

\* conversation_id REFERENCES conversations(id), sender_id REFERENCES users(id)
AdmitsMessage(conversationId, userId) ==
    /\ \E i \in DOMAIN conversations : conversations[i].id = conversationId
    /\ IsUser(userId)

\* conversation_id REFERENCES conversations(id), user_id REFERENCES users(id)
AdmitsDeletion(conversationId, userId) ==
    /\ \E i \in DOMAIN conversations : conversations[i].id = conversationId
    /\ IsUser(userId)

\* the sequence has a value for each insert in flight and for one more
MessageRoom ==
    seq.messages + Cardinality({s \in Slots : h[s].op = "sendMessage"
                                              /\ h[s].pc \in {"unhide", "insert"}})
       < MaxMessages

-----------------------------------------------------------------------------
(* GET /conversations *)

ListConversations(s, userId) ==
    /\ Free(s)
    /\ \E sq \in DescOrders(ListedConversations(userId),
                             UpdatedAt(ListedConversations(userId))) :
          Respond(s, "listConversations", userId, 0, 200, sq)
    /\ UNCHANGED <<invitations, conversations, msgTables, locTables, users, seq, now>>

-----------------------------------------------------------------------------
(* GET /conversations/:conversationId/messages *)

GetMessagesCheck(s, userId, conversationId, limit, offset) ==
    /\ Free(s)
    /\ UNCHANGED <<invitations, conversations, msgTables, locTables, users, seq, now>>
    /\ IF SelectConversation(conversationId, userId) = <<>>
       THEN RespondTo(s, "getMessages", userId, conversationId, <<limit, offset>>,
                      403, <<>>)
       ELSE /\ Await(s, "getMessages", "deletion", userId, conversationId,
                     <<limit, offset>>, <<>>, {})
            /\ Silent

GetMessagesDeletion(s) ==
    /\ h[s].op = "getMessages" /\ h[s].pc = "deletion"
    /\ h' = [h EXCEPT ![s].pc = "select",
                      ![s].marks = SelectDeletion(h[s].id, h[s].userId)]
    /\ Silent
    /\ UNCHANGED <<invitations, conversations, msgTables, locTables, users, seq, now>>

GetMessagesSelect(s) ==
    /\ h[s].op = "getMessages" /\ h[s].pc = "select"
    /\ \E result \in MessagePages(h[s].id, h[s].marks, h[s].body[1], h[s].body[2]) :
          h' = [h EXCEPT ![s].pc = "markRead", ![s].rows = result]
    /\ Silent
    /\ UNCHANGED <<invitations, conversations, msgTables, locTables, users, seq, now>>

GetMessagesMarkRead(s) ==
    /\ h[s].op = "getMessages" /\ h[s].pc = "markRead"
    /\ messages' = MarkRead(messages, h[s].id, h[s].userId)
    /\ Respond(s, "getMessages", h[s].userId, h[s].id, 200, Reverse(h[s].rows))
    /\ UNCHANGED <<invitations, conversations, deletedBy, locTables, users, seq, now>>

-----------------------------------------------------------------------------
(* POST /conversations/:conversationId/send *)

SendMessageCheck(s, userId, conversationId, content) ==
    /\ Free(s)
    /\ UNCHANGED <<invitations, conversations, msgTables, locTables, users, seq, now>>
    /\ LET conversationCheck == SelectConversation(conversationId, userId) IN
       IF content = ""
       THEN RespondTo(s, "sendMessage", userId, conversationId, <<content>>, 400, <<>>)
       ELSE IF conversationCheck = <<>>
       THEN RespondTo(s, "sendMessage", userId, conversationId, <<content>>, 403, <<>>)
       ELSE /\ MessageRoom
            /\ Await(s, "sendMessage", "unhide", userId, conversationId, <<content>>,
                     conversationCheck, {})
            /\ Silent

SendMessageUnhide(s) ==
    /\ h[s].op = "sendMessage" /\ h[s].pc = "unhide"
    /\ LET otherUserId == OtherUser(h[s].rows[1], h[s].userId) IN
       /\ deletedBy' = DeleteDeletion(deletedBy, h[s].id, otherUserId)
       /\ h' = [h EXCEPT ![s].pc = "insert", ![s].rows = <<>>,
                         ![s].marks = deletedBy \ deletedBy']
    /\ Silent
    /\ UNCHANGED <<invitations, conversations, messages, locTables, users, seq, now>>

\* a statement that a constraint rejects throws: the catch block answers 500
SendMessageInsert(s) ==
    /\ h[s].op = "sendMessage" /\ h[s].pc = "insert"
    /\ Draw("messages")
    /\ IF AdmitsMessage(h[s].id, h[s].userId)
       THEN /\ messages' = InsertMessage(messages, h[s].id, h[s].userId, now)
            /\ h' = [h EXCEPT ![s].pc = "touch",
                              ![s].rows = <<messages'[Len(messages')]>>]
            /\ Silent
       ELSE /\ messages' = messages
            /\ Respond(s, "sendMessage", h[s].userId, h[s].id, 500, <<>>)
    /\ UNCHANGED <<invitations, conversations, deletedBy, locTables, users, now>>

SendMessageTouch(s) ==
    /\ h[s].op = "sendMessage" /\ h[s].pc = "touch"
    /\ conversations' = TouchConversation(conversations, h[s].id, now)
    /\ Respond(s, "sendMessage", h[s].userId, h[s].id, 201, h[s].rows)
    /\ UNCHANGED <<invitations, msgTables, locTables, users, seq, now>>

-----------------------------------------------------------------------------
(* POST /conversations/:conversationId/delete *)

DeleteConversationCheck(s, userId, conversationId) ==
    /\ Free(s)
    /\ UNCHANGED <<invitations, conversations, msgTables, locTables, users, seq, now>>
    /\ IF SelectConversation(conversationId, userId) = <<>>
       THEN Respond(s, "deleteConversation", userId, conversationId, 403, <<>>)
       ELSE /\ Await(s, "deleteConversation", "mark", userId, conversationId, <<>>,
                     <<>>, {})
            /\ Silent

\* a statement that a constraint rejects throws: the catch block answers 500
DeleteConversationMark(s) ==
    /\ h[s].op = "deleteConversation" /\ h[s].pc = "mark"
    /\ IF AdmitsDeletion(h[s].id, h[s].userId)
       THEN /\ deletedBy' = InsertDeletion(deletedBy, h[s].id, h[s].userId, now)
            /\ Respond(s, "deleteConversation", h[s].userId, h[s].id, 200, <<>>)
       ELSE /\ deletedBy' = deletedBy
            /\ Respond(s, "deleteConversation", h[s].userId, h[s].id, 500, <<>>)
    /\ UNCHANGED <<invitations, conversations, messages, locTables, users, seq, now>>

-----------------------------------------------------------------------------
(* Messaging: specifications *)

\* the store's clock advances between any two statements, or does not
Tick ==
    /\ now < MaxTime
    /\ now' = now + 1
    /\ Silent
    /\ UNCHANGED <<invitations, conversations, msgTables, locTables, users, seq, h>>

\* the store after user 1's invitations to users 2 and 3 were accepted
InitChat ==
    /\ users = [i \in 1 .. Cardinality(Users) |-> [id |-> i, email |-> Emails[i]]]
    /\ seq = [users |-> Cardinality(Users), invitations |-> 2, conversations |-> 2,
              messages |-> 0, contacts |-> 0, alerts |-> 0]
    /\ invitations = <<[id |-> 1, sender_id |-> 1, receiver_id |-> 2, status |-> "accepted"],
                       [id |-> 2, sender_id |-> 1, receiver_id |-> 3, status |-> "accepted"]>>
    /\ conversations = <<[id |-> 1, user1_id |-> 1, user2_id |-> 2, updated_at |-> 0],
                         [id |-> 2, user1_id |-> 1, user2_id |-> 3, updated_at |-> 0]>>
    /\ messages = <<>>
    /\ deletedBy = {}
    /\ contacts = <<>>
    /\ alerts = <<>>
    /\ tracking = <<>>
    /\ now = 0
    /\ h = [s \in Slots |-> Idle]
    /\ last = NoResponse

\* the handlers of the messaging routes in slot s, for requests of the users
\* U that name conversations Cs
ListStep(s, U) == \E u \in U : ListConversations(s, u)

GetStep(s, U, Cs, Ls, Os) ==
    \/ \E u \in U, c \in Cs, l \in Ls, o \in Os : GetMessagesCheck(s, u, c, l, o)
    \/ GetMessagesDeletion(s)
    \/ GetMessagesSelect(s)
    \/ GetMessagesMarkRead(s)

SendStep(s, U, Cs, Xs) ==
    \/ \E u \in U, c \in Cs, x \in Xs : SendMessageCheck(s, u, c, x)
    \/ SendMessageUnhide(s)
    \/ SendMessageInsert(s)
    \/ SendMessageTouch(s)

DeleteStep(s, U, Cs) ==
    \/ \E u \in U, c \in Cs : DeleteConversationCheck(s, u, c)
    \/ DeleteConversationMark(s)

\* the two participants of conversation 1 delete it, write to it and read it,
\* and user 1 deletes user 2, one request at a time
NextChat ==
    \/ ListStep(1, Pair)
    \/ GetStep(1, Pair, {1}, {0}, {0})
    \/ SendStep(1, Pair, {1}, {"hi"})
    \/ DeleteStep(1, Pair, {1})
    \/ DeleteUserStep(1, {1}, {2})
    \/ Tick

SpecChat == InitChat /\ [][NextChat]_vars

\* the three users write to and read their two conversations, and user 1
\* deletes conversation 1 and the users 2 and 3, one request at a time
NextRead ==
    \/ GetStep(1, Users, {1, 2}, {0}, {0})
    \/ SendStep(1, Users, {1, 2}, {"hi"})
    \/ DeleteStep(1, {1}, {1})
    \/ DeleteUserStep(1, {1}, {2, 3})

SpecRead == InitChat /\ [][NextRead]_vars

\* the three users list their conversations, users 1 and 2 write to the two
\* conversations and user 1 deletes them and the users 2 and 3, one request
\* at a time
NextList ==
    \/ ListStep(1, Users)
    \/ SendStep(1, Pair, {1, 2}, {"hi"})
    \/ DeleteStep(1, {1}, {1, 2})
    \/ DeleteUserStep(1, {1}, {2, 3})
    \/ Tick

SpecList == InitChat /\ [][NextList]_vars

\* the limits and offsets of the pages a reader asks for (0: none given)
Limits == {0, 1, 2}

Offsets == {0, 1}

\* user 1 reads conversation 1 page by page and deletes it and user 2, and
\* both of its participants write to it, one request at a time
NextPage ==
    \/ GetStep(1, {1}, {1}, Limits, Offsets)
    \/ SendStep(1, Pair, {1}, {"hi"})
    \/ DeleteStep(1, {1}, {1})
    \/ DeleteUserStep(1, {1}, {2})
    \/ Tick

SpecPage == InitChat /\ [][NextPage]_vars

\* the contents a writer sends ("": none, or the empty string)
Contents == {"", "hi"}

\* the three users write to conversation 1 of users 1 and 2 and to a
\* conversation that does not exist, and delete them, and user 1 deletes user
\* 2, one request at a time
NextGuard ==
    \/ SendStep(1, Users, {1, 3}, Contents)
    \/ DeleteStep(1, Users, {1, 3})
    \/ DeleteUserStep(1, {1}, {2})
    \/ Tick

SpecGuard == InitChat /\ [][NextGuard]_vars

\* user 1 deletes conversation 1, and user 2, while user 2 writes to it; the
\* requests are served concurrently
NextRaceDelete ==
    \/ \E s \in Slots :
          \/ DeleteStep(s, {1}, {1})
          \/ SendStep(s, {2}, {1}, {"hi"})
          \/ DeleteUserStep(s, {1}, {2})
    \/ Tick

SpecRaceDelete == InitChat /\ [][NextRaceDelete]_vars

\* user 1 reads conversation 1, and deletes user 2, while user 2 writes to
\* it; the requests are served concurrently
NextRaceRead ==
    \E s \in Slots :
       \/ GetStep(s, {1}, {1}, {0}, {0})
       \/ SendStep(s, {2}, {1}, {"hi"})
       \/ DeleteUserStep(s, {1}, {2})

SpecRaceRead == InitChat /\ [][NextRaceRead]_vars

-----------------------------------------------------------------------------
(* Properties of soft delete, reappearance and read tracking *)

\* the messages of a conversation
MessagesOf(conversationId) ==
    {m \in Range(messages) : m.conversation_id = conversationId}

Ids(rows) == {r.id : r \in rows}

\* the two users of a conversation
Participants(conversationId) ==
    UNION {{c.user1_id, c.user2_id} : c \in {c \in Range(conversations) : c.id = conversationId}}

SentNow == last.op = "sendMessage" /\ last.code = 201

FetchedNow == last.op = "getMessages" /\ last.code = 200

\* C4: when a participant's send-message has completed, the other participant
\* holds no soft-delete mark on the conversation: the conversation is in the
\* other participant's list and the message query returns to them every
\* message of the conversation, those older than their deletion included.
C4_Reappearance ==
    SentNow =>
        \A p \in Participants(last.id) \ {last.userId} :
            /\ SelectDeletion(last.id, p) = {}
            /\ last.id \in Ids(ListedConversations(p))
            /\ \A page \in MessagePages(last.id, SelectDeletion(last.id, p), 0, 0) :
                  Range(page) = MessagesOf(last.id)

\* a send has just removed the mark of the other participant, who had deleted
\* the conversation when it already held a message
C4_Witness ==
    /\ SentNow
    /\ \E d \in last.marks :
          /\ d.user_id # last.userId
          /\ \E m \in MessagesOf(last.id) : m.created_at <= d.deleted_at

\* C5: a get-messages of a user who holds a soft-delete mark on the
\* conversation returns exactly the messages created strictly after the mark's
\* deleted_at; a get-messages of a user who holds none returns every message
\* of the conversation, whether or not the other participant holds a mark.
C5_DeletionHidesHistory ==
    FetchedNow =>
        LET marks == SelectDeletion(last.id, last.userId) IN
        IF marks # {}
        THEN /\ \A d \in marks : \A i \in DOMAIN last.rows :
                   last.rows[i].created_at > d.deleted_at
             /\ \A d \in marks :
                   Ids(Range(last.rows)) =
                      Ids({m \in MessagesOf(last.id) : m.created_at > d.deleted_at})
        ELSE Ids(Range(last.rows)) = Ids(MessagesOf(last.id))

\* a user who holds a mark has fetched the conversation: a message created at
\* the very instant of the deletion stays hidden, a later one is returned
C5_Witness ==
    /\ FetchedNow
    /\ last.rows # <<>>
    /\ \E d \in SelectDeletion(last.id, last.userId) :
          \E m \in MessagesOf(last.id) : m.created_at = d.deleted_at

\* C6: is_read changes only in the step in which a get-messages answers with
\* success, only from false to true and only on messages of the fetched
\* conversation that the caller did not send; that step leaves no message of
\* the other participant in the conversation unread.
C6_MarksExactlyCounterpartUnread ==
    [][/\ \A m \in Range(messages) : \A m2 \in WithId(messages', m.id) :
            m2 # m =>
               /\ last'.op = "getMessages" /\ last'.code = 200
               /\ m.conversation_id = last'.id
               /\ m.sender_id # last'.userId
               /\ ~m.is_read
               /\ m2 = [m EXCEPT !.is_read = TRUE]
       /\ (last'.op = "getMessages" /\ last'.code = 200) =>
             \A m \in Range(messages) :
                (m.conversation_id = last'.id /\ m.sender_id # last'.userId)
                   => \E m2 \in WithId(messages', m.id) : m2.is_read]_vars

\* a fetch has marked the other participant's message read while an unread
\* message addressed to the same caller waits in another conversation
C6_Witness ==
    /\ FetchedNow
    /\ \E m \in MessagesOf(last.id) : m.sender_id # last.userId /\ m.is_read
    /\ \E m \in Range(messages) :
          /\ m.conversation_id # last.id
          /\ m.sender_id # last.userId
          /\ SelectConversation(m.conversation_id, last.userId) # <<>>
          /\ ~m.is_read

-----------------------------------------------------------------------------
(* Statements on user_contacts, location_alerts and location_tracking *)

\* the value of a column that is NULL (ended_at of an alert that has not ended)
Null == 0 - 1

\* the same SELECT, satisfied by an edge in either direction
SelectContactEitherWay(userId, contactUserId) ==
    {c \in Range(contacts) :
        \/ c.user_id = userId /\ c.contact_user_id = contactUserId
        \/ c.user_id = contactUserId /\ c.contact_user_id = userId}

\* SELECT id FROM user_contacts WHERE user_id = $1 AND contact_user_id = $2
SelectContact(userId, contactUserId) ==
    {c \in Range(contacts) :
        c.user_id = userId /\ c.contact_user_id = ToInteger(contactUserId)}

\* the same INSERT without its ON CONFLICT clause and without the constraint
UpsertContactAppending(tbl, userId, contactUserId, t) ==
    Append(tbl, [id |-> NextVal("contacts"), user_id |-> userId,
                 contact_user_id |-> contactUserId, created_at |-> t])

\* INSERT INTO user_contacts (user_id, contact_user_id) VALUES ($1, $2)
\* ON CONFLICT (user_id, contact_user_id) DO UPDATE SET updated_at = NOW()
UpsertContact(tbl, userId, contactUserId, t) ==
    IF \E i \in DOMAIN tbl : tbl[i].user_id = userId /\ tbl[i].contact_user_id = contactUserId
    THEN tbl
    ELSE Append(tbl, [id |-> NextVal("contacts"), user_id |-> userId,
                      contact_user_id |-> contactUserId, created_at |-> t])

\* UPDATE location_alerts SET alert_status = 'inactive', ended_at = NOW()
\* WHERE user_id = $1 AND contact_user_id = $2 AND alert_status = 'active'
DeactivateAlerts(tbl, userId, contactUserId, t) ==
    [i \in DOMAIN tbl |->
        IF /\ tbl[i].user_id = userId
           /\ tbl[i].contact_user_id = contactUserId
           /\ tbl[i].alert_status = "active"
        THEN [tbl[i] EXCEPT !.alert_status = "inactive", !.ended_at = t]
        ELSE tbl[i]]

\* INSERT INTO location_alerts (user_id, contact_user_id, alert_status, started_at)
\* VALUES ($1, $2, 'active', NOW())
InsertAlert(tbl, userId, contactUserId, t) ==
    Append(tbl, [id |-> NextVal("alerts"), user_id |-> userId,
                 contact_user_id |-> contactUserId, alert_status |-> "active",
                 started_at |-> t, ended_at |-> Null])

\* the same UPDATE, switching an inactive alert back on
StopAlertRowsToggling(tbl, alertId, userId, t) ==
    [i \in DOMAIN tbl |->
        IF tbl[i].id = alertId /\ tbl[i].user_id = userId
        THEN IF tbl[i].alert_status = "active"
             THEN [tbl[i] EXCEPT !.alert_status = "inactive", !.ended_at = t]
             ELSE [tbl[i] EXCEPT !.alert_status = "active", !.ended_at = Null]
        ELSE tbl[i]]

\* UPDATE location_alerts SET alert_status = 'inactive', ended_at = NOW()
\* WHERE id = $1 AND user_id = $2
StopAlertRows(tbl, alertId, userId, t) ==
    [i \in DOMAIN tbl |->
        IF tbl[i].id = alertId /\ tbl[i].user_id = userId
        THEN [tbl[i] EXCEPT !.alert_status = "inactive", !.ended_at = t]
        ELSE tbl[i]]

\* CREATE TABLE location_tracking declares no unique constraint on user_id (the
\* index idx_location_user_id on it is not unique)
TrackingUserIdUnique == FALSE

\* INSERT INTO location_tracking (user_id, latitude, longitude, ...)
\* ON CONFLICT (user_id) DO UPDATE SET latitude = $2, longitude = $3:
\* the store rejects the statement when no unique constraint matches the
\* conflict target, and the table stays as it is
UpsertTracking(tbl, userId, latitude, longitude) ==
    IF ~TrackingUserIdUnique
    THEN [ok |-> FALSE, table |-> tbl]
    ELSE IF \E i \in DOMAIN tbl : tbl[i].user_id = userId
    THEN [ok |-> TRUE,
          table |-> [i \in DOMAIN tbl |->
                        IF tbl[i].user_id = userId
                        THEN [tbl[i] EXCEPT !.latitude = latitude, !.longitude = longitude]
                        ELSE tbl[i]]]
    ELSE [ok |-> TRUE,
          table |-> Append(tbl, [user_id |-> userId, latitude |-> latitude,
                                 longitude |-> longitude])]

\* the rows of  SELECT uc.id, uc.contact_user_id, ..., uc.created_at
\*              FROM user_contacts uc JOIN users u ON uc.contact_user_id = u.id
\*              WHERE uc.user_id = $1
ListedContacts(userId) ==
    {[id |-> c.id, contact_user_id |-> c.contact_user_id, created_at |-> c.created_at] :
        c \in {c \in Range(contacts) : c.user_id = userId /\ IsUser(c.contact_user_id)}}

\* the rows location_tracking holds for a user, or the one row of NULLs that
\* a LEFT JOIN supplies when it holds none
TrackingOrNull(userId) ==
    IF \E i \in DOMAIN tracking : tracking[i].user_id = userId
    THEN {[latitude |-> lt.latitude, longitude |-> lt.longitude] :
             lt \in {lt \in Range(tracking) : lt.user_id = userId}}
    ELSE {[latitude |-> Null, longitude |-> Null]}

\* the same SELECT without its AND la.alert_status = 'active'
IncomingLocationsOfAnyStatus(userId) ==
    UNION {{[alert_id |-> la.id, user_id |-> la.user_id, latitude |-> lt.latitude,
             longitude |-> lt.longitude, started_at |-> la.started_at] :
               lt \in TrackingOrNull(la.user_id)} :
           la \in {la \in Range(alerts) : /\ la.contact_user_id = userId
                                          /\ IsUser(la.user_id)}}

\* the rows of  SELECT la.id as alert_id, u.id as user_id, lt.latitude,
\*                     lt.longitude, la.started_at
\*              FROM location_alerts la JOIN users u ON la.user_id = u.id
\*              LEFT JOIN location_tracking lt ON la.user_id = lt.user_id
\*              WHERE la.contact_user_id = $1 AND la.alert_status = 'active'
IncomingLocations(userId) ==
    UNION {{[alert_id |-> la.id, user_id |-> la.user_id, latitude |-> lt.latitude,
             longitude |-> lt.longitude, started_at |-> la.started_at] :
               lt \in TrackingOrNull(la.user_id)} :
           la \in {la \in Range(alerts) : /\ la.contact_user_id = userId
                                          /\ la.alert_status = "active"
                                          /\ IsUser(la.user_id)}}

\* the sort keys: uc.created_at of contacts, la.started_at of alerts
StartedAt(S) == [r \in S |-> r.started_at]

\* DELETE FROM user_contacts WHERE id = $1 AND user_id = $2
DeleteContact(tbl, contactId, userId) ==
    SelectSeq(tbl, LAMBDA c : ~(c.id = contactId /\ c.user_id = userId))

\* user_id and contact_user_id REFERENCES users(id), in user_contacts and in
\* location_alerts
AdmitsContact(userId, contactUserId) == IsUser(userId) /\ IsUser(contactUserId)

AdmitsAlert(userId, contactUserId) == IsUser(userId) /\ IsUser(contactUserId)

\* the sequence has a value for each upsert in flight and for one more
ContactRoom ==
    seq.contacts + Cardinality({s \in Slots : h[s].op = "addContact"}) < MaxContacts

\* the sequence has a value for each insert in flight and for one more
AlertRoom ==
    seq.alerts + Cardinality({s \in Slots : h[s].op = "sendAlert"
                                            /\ h[s].pc \in {"deactivate", "insert"}})
       < MaxAlerts

-----------------------------------------------------------------------------
(* POST /add-contact *)

AddContactCheck(s, userId, contactUserId) ==
    /\ Free(s)
    /\ UNCHANGED <<invitations, conversations, msgTables, locTables, users, seq, now>>
    /\ IF contactUserId = 0
       THEN RespondTo(s, "addContact", userId, ToInteger(contactUserId),
                      <<contactUserId>>, 400, <<>>)
       ELSE IF SelectUser(contactUserId) = <<>>
       THEN RespondTo(s, "addContact", userId, ToInteger(contactUserId),
                      <<contactUserId>>, 404, <<>>)
       ELSE /\ ContactRoom
            /\ Await(s, "addContact", "insert", userId, ToInteger(contactUserId),
                     <<contactUserId>>, <<>>, {})
            /\ Silent

\* a statement that a constraint rejects throws: the catch block answers 500
AddContactInsert(s) ==
    /\ h[s].op = "addContact" /\ h[s].pc = "insert"
    /\ Draw("contacts")
    /\ IF AdmitsContact(h[s].userId, h[s].id)
       THEN /\ contacts' = UpsertContact(contacts, h[s].userId, h[s].id, now)
            /\ Respond(s, "addContact", h[s].userId, h[s].id, 201,
                       SelectSeq(contacts', LAMBDA c : c.user_id = h[s].userId
                                                       /\ c.contact_user_id = h[s].id))
       ELSE /\ contacts' = contacts
            /\ Respond(s, "addContact", h[s].userId, h[s].id, 500, <<>>)
    /\ UNCHANGED <<invitations, conversations, msgTables, alerts, tracking, users, now>>

-----------------------------------------------------------------------------
(* GET /contacts *)

ListContacts(s, userId) ==
    /\ Free(s)
    /\ \E sq \in DescOrders(ListedContacts(userId), CreatedAt(ListedContacts(userId))) :
          Respond(s, "listContacts", userId, 0, 200, sq)
    /\ UNCHANGED <<invitations, conversations, msgTables, locTables, users, seq, now>>

-----------------------------------------------------------------------------
(* GET /contact-locations *)

ContactLocations(s, userId) ==
    /\ Free(s)
    /\ \E sq \in DescOrders(IncomingLocations(userId),
                             StartedAt(IncomingLocations(userId))) :
          Respond(s, "contactLocations", userId, 0, 200, sq)
    /\ UNCHANGED <<invitations, conversations, msgTables, locTables, users, seq, now>>

-----------------------------------------------------------------------------
(* DELETE /contacts/:contactId *)

RemoveContact(s, userId, contactId) ==
    /\ Free(s)
    /\ contacts' = DeleteContact(contacts, contactId, userId)
    /\ LET result == SelectSeq(contacts,
                               LAMBDA c : c.id = contactId /\ c.user_id = userId) IN
       IF result = <<>>
       THEN Respond(s, "removeContact", userId, contactId, 404, <<>>)
       ELSE Respond(s, "removeContact", userId, contactId, 200, result)
    /\ UNCHANGED <<invitations, conversations, msgTables, alerts, tracking, users, seq, now>>

-----------------------------------------------------------------------------
(* POST /send-alert *)

SendAlertCheck(s, userId, contactUserId, latitude, longitude) ==
    /\ Free(s)
    /\ UNCHANGED <<invitations, conversations, msgTables, locTables, users, seq, now>>
    /\ IF contactUserId = 0 \/ latitude = Null \/ longitude = Null
       THEN RespondTo(s, "sendAlert", userId, ToInteger(contactUserId),
                      <<latitude, longitude, contactUserId>>, 400, <<>>)
       ELSE IF SelectContact(userId, contactUserId) = {}
       THEN RespondTo(s, "sendAlert", userId, ToInteger(contactUserId),
                      <<latitude, longitude, contactUserId>>, 403, <<>>)
       ELSE /\ AlertRoom
            /\ Await(s, "sendAlert", "deactivate", userId, ToInteger(contactUserId),
                     <<latitude, longitude, contactUserId>>, <<>>, {})
            /\ Silent

SendAlertDeactivate(s) ==
    /\ h[s].op = "sendAlert" /\ h[s].pc = "deactivate"
    /\ alerts' = DeactivateAlerts(alerts, h[s].userId, h[s].id, now)
    /\ Goto(s, "insert")
    /\ Silent
    /\ UNCHANGED <<invitations, conversations, msgTables, contacts, tracking, users, seq, now>>

\* a statement that a constraint rejects throws: the catch block answers 500
SendAlertInsert(s) ==
    /\ h[s].op = "sendAlert" /\ h[s].pc = "insert"
    /\ Draw("alerts")
    /\ IF AdmitsAlert(h[s].userId, h[s].id)
       THEN /\ alerts' = InsertAlert(alerts, h[s].userId, h[s].id, now)
            /\ h' = [h EXCEPT ![s].pc = "track", ![s].rows = <<alerts'[Len(alerts')]>>]
            /\ Silent
       ELSE /\ alerts' = alerts
            /\ Respond(s, "sendAlert", h[s].userId, h[s].id, 500, <<>>)
    /\ UNCHANGED <<invitations, conversations, msgTables, contacts, tracking, users, now>>

\* a rejected statement throws: the catch block answers 500
SendAlertTrack(s) ==
    /\ h[s].op = "sendAlert" /\ h[s].pc = "track"
    /\ LET upsert == UpsertTracking(tracking, h[s].userId, h[s].body[1], h[s].body[2]) IN
       /\ tracking' = upsert.table
       /\ IF upsert.ok
          THEN Respond(s, "sendAlert", h[s].userId, h[s].id, 201, h[s].rows)
          ELSE Respond(s, "sendAlert", h[s].userId, h[s].id, 500, <<>>)
    /\ UNCHANGED <<invitations, conversations, msgTables, contacts, alerts, users, seq, now>>

-----------------------------------------------------------------------------
(* POST /update-location *)

\* a rejected statement throws: the catch block answers 500
UpdateLocation(s, userId, latitude, longitude) ==
    /\ Free(s)
    /\ IF latitude = Null \/ longitude = Null
       THEN /\ RespondTo(s, "updateLocation", userId, 0, <<latitude, longitude>>, 400, <<>>)
            /\ UNCHANGED tracking
       ELSE LET upsert == UpsertTracking(tracking, userId, latitude, longitude) IN
            /\ tracking' = upsert.table
            /\ IF upsert.ok
               THEN RespondTo(s, "updateLocation", userId, 0, <<latitude, longitude>>, 200,
                              SelectSeq(tracking', LAMBDA lt : lt.user_id = userId))
               ELSE RespondTo(s, "updateLocation", userId, 0, <<latitude, longitude>>, 500,
                              <<>>)
    /\ UNCHANGED <<invitations, conversations, msgTables, contacts, alerts, users, seq, now>>

-----------------------------------------------------------------------------
(* POST /stop-alert/:alertId *)

StopAlert(s, userId, alertId) ==
    /\ Free(s)
    /\ alerts' = StopAlertRows(alerts, alertId, userId, now)
    /\ LET result == SelectSeq(alerts', LAMBDA a : a.id = alertId /\ a.user_id = userId) IN
       IF result = <<>>
       THEN Respond(s, "stopAlert", userId, alertId, 404, <<>>)
       ELSE Respond(s, "stopAlert", userId, alertId, 200, result)
    /\ UNCHANGED <<invitations, conversations, msgTables, contacts, tracking, users, seq, now>>

-----------------------------------------------------------------------------
(* Location alerts: specifications *)

\* the ids a request may name as an alert: the rows and one that is none
AlertIds == 1 .. (MaxAlerts + 1)

AddContactStep(s, U, Cs) ==
    \/ \E u \in U, c \in Cs : AddContactCheck(s, u, c)
    \/ AddContactInsert(s)

SendAlertStep(s, U, Cs, Lats, Lons) ==
    \/ \E u \in U, c \in Cs, x \in Lats, y \in Lons : SendAlertCheck(s, u, c, x, y)
    \/ SendAlertDeactivate(s)
    \/ SendAlertInsert(s)
    \/ SendAlertTrack(s)

StopAlertStep(s, U) == \E u \in U, a \in AlertIds : StopAlert(s, u, a)

\* users 1 and 2 add user 2 as a contact, alert each other and stop their
\* alerts, and user 1 deletes user 2; the requests are served concurrently
NextAlert ==
    \E s \in Slots :
        \/ AddContactStep(s, Pair, {2})
        \/ SendAlertStep(s, Pair, Pair, {10}, {20})
        \/ StopAlertStep(s, Pair)
        \/ DeleteUserStep(s, {1}, {2})

SpecAlert == InitEmpty /\ [][NextAlert]_vars

\* the coordinates a sender reports
Latitudes == {10, 11}

Longitudes == {20}

\* user 1 adds users 2 and 3 as contacts, alerts them from two places and
\* deletes user 3, and user 2 reads the incoming alerts, one request at a time
NextLoc ==
    \/ AddContactStep(1, {1}, {2, 3})
    \/ SendAlertStep(1, {1}, {2, 3}, Latitudes, Longitudes)
    \/ ContactLocations(1, 2)
    \/ DeleteUserStep(1, {1}, {3})
    \/ Tick

SpecLoc == InitEmpty /\ [][NextLoc]_vars

\* users 1 and 2 add contacts, users among them, by number and by a string
\* that spells it, and others, and list their
\* contacts, an account is registered and user 1 deletes user 2, one request
\* at a time
NextContacts ==
    \/ AddContactStep(1, Pair, Pair \cup NonUsers \cup {0, StringOf(2)})
    \/ \E u \in Pair : ListContacts(1, u)
    \/ RegisterStep(1, {Emails[4]})
    \/ DeleteUserStep(1, {1}, {2})
    \/ Tick

SpecContacts == InitEmpty /\ [][NextContacts]_vars

\* users 1 and 3 alert their contact, user 2, and stop alerts, their own and
\* each other's, users 2 and 3 read their incoming alerts, and user 3 is
\* deleted, one request at a time
NextIncoming ==
    \/ SendAlertStep(1, {1, 3}, {2}, {10}, {20})
    \/ StopAlertStep(1, {1, 3})
    \/ \E v \in {2, 3} : ContactLocations(1, v)
    \/ DeleteUserStep(1, {1}, {3})
    \/ Tick

\* the store after users 1 and 3 have added user 2 as a contact
InitContacts ==
    /\ users = [i \in 1 .. Cardinality(Users) |-> [id |-> i, email |-> Emails[i]]]
    /\ seq = [users |-> Cardinality(Users), invitations |-> 0, conversations |-> 0,
              messages |-> 0, contacts |-> 2, alerts |-> 0]
    /\ invitations = <<>>
    /\ conversations = <<>>
    /\ messages = <<>>
    /\ deletedBy = {}
    /\ contacts = <<[id |-> 1, user_id |-> 1, contact_user_id |-> 2, created_at |-> 0],
                    [id |-> 2, user_id |-> 3, contact_user_id |-> 2, created_at |-> 0]>>
    /\ alerts = <<>>
    /\ tracking = <<>>
    /\ now = 0
    /\ h = [s \in Slots |-> Idle]
    /\ last = NoResponse

SpecIncoming == InitContacts /\ [][NextIncoming]_vars

\* users 1 and 2 report their location, with and without a latitude, and user
\* 1 adds user 2 as a contact, alerts user 2, naming the contact by number
\* and by a string that spells it, and deletes user 2, one request at a time
NextTrack ==
    \/ \E u \in Pair, x \in Latitudes \cup {Null}, y \in Longitudes :
          UpdateLocation(1, u, x, y)
    \/ AddContactStep(1, {1}, {2})
    \/ SendAlertStep(1, {1}, {2, StringOf(2)}, Latitudes, Longitudes)
    \/ DeleteUserStep(1, {1}, {2})
    \/ Tick

SpecTrack == InitEmpty /\ [][NextTrack]_vars

\* the ids a request may name as a contact row: the rows and one that is none
ContactIds == 1 .. (MaxContacts + 1)

\* user 1 adds user 2 as a contact, alerts user 2, stops alerts, removes
\* contact rows, as user 2 tries to, and deletes user 2, and user 2 reads the
\* incoming alerts, one request at a time
NextRemove ==
    \/ AddContactStep(1, {1}, {2})
    \/ \E u \in Pair, c \in ContactIds : RemoveContact(1, u, c)
    \/ SendAlertStep(1, {1}, {2}, {10}, {20})
    \/ StopAlertStep(1, {1})
    \/ ContactLocations(1, 2)
    \/ DeleteUserStep(1, {1}, {2})

SpecRemove == InitEmpty /\ [][NextRemove]_vars

-----------------------------------------------------------------------------
(* Properties of the location alerts *)

\* C1: no ordered (sender, receiver) pair ever has two active alert rows.
C1_OneActiveAlertPerPair ==
    \A i \in DOMAIN alerts, j \in DOMAIN alerts :
        (/\ alerts[i].alert_status = "active" /\ alerts[j].alert_status = "active"
         /\ alerts[i].user_id = alerts[j].user_id
         /\ alerts[i].contact_user_id = alerts[j].contact_user_id) => i = j

-----------------------------------------------------------------------------
(* Properties of the conversation list and of the message page *)

\* the rows of conversations in which userId takes part and on which userId
\* holds no mark
OpenConversations(userId) ==
    {i \in DOMAIN conversations :
        /\ userId \in {conversations[i].user1_id, conversations[i].user2_id}
        /\ \A d \in deletedBy :
              ~ (d.conversation_id = conversations[i].id /\ d.user_id = userId)}

\* C12: the list of conversations a user receives holds exactly the
\* conversations the user takes part in and holds no soft-delete mark on, each
\* once, in the order of updated_at descending.
C12_ListIsUndeletedByRecency ==
    last.op = "listConversations" =>
        /\ last.code = 200
        /\ {last.rows[k].id : k \in DOMAIN last.rows}
             = {conversations[i].id : i \in OpenConversations(last.userId)}
        /\ Len(last.rows) = Cardinality(OpenConversations(last.userId))
        /\ \A k \in DOMAIN last.rows :
              \E i \in DOMAIN conversations :
                 /\ conversations[i].id = last.rows[k].id
                 /\ conversations[i].updated_at = last.rows[k].updated_at
        /\ \A k, l \in DOMAIN last.rows :
              k < l => last.rows[k].updated_at >= last.rows[l].updated_at

\* a user who takes part in two conversations and has deleted the more
\* recently updated one receives the other alone
C12_Witness ==
    /\ last.op = "listConversations"
    /\ Len(last.rows) = 1
    /\ \E i \in DOMAIN conversations :
          /\ last.userId \in {conversations[i].user1_id, conversations[i].user2_id}
          /\ conversations[i].updated_at > last.rows[1].updated_at
          /\ \E d \in deletedBy :
                d.conversation_id = conversations[i].id /\ d.user_id = last.userId

\* a user receives two conversations, the one with the larger id first as it
\* was updated later
C12_WitnessOrder ==
    /\ last.op = "listConversations"
    /\ Len(last.rows) = 2
    /\ last.rows[1].id > last.rows[2].id
    /\ last.rows[1].updated_at > last.rows[2].updated_at

\* the rows of messages that belong to a conversation and that a user sees:
\* all of them, or those created after the user's mark
SeenBy(conversationId, userId) ==
    {i \in DOMAIN messages :
        /\ messages[i].conversation_id = conversationId
        /\ \A d \in deletedBy :
              (d.conversation_id = conversationId /\ d.user_id = userId)
                 => messages[i].created_at > d.deleted_at}

\* the rankings of a set of message rows by recency, the most recent first
ByRecency(S) ==
    {r \in [1 .. Cardinality(S) -> S] :
        /\ \A k, l \in DOMAIN r : k # l => r[k] # r[l]
        /\ \A k, l \in DOMAIN r :
              k < l => messages[r[k]].created_at >= messages[r[l]].created_at}

\* C13: the messages a reader receives for (limit, offset) are the messages
\* the reader sees at ranks offset+1 .. offset+limit of a ranking by descending
\* recency, and they come in ascending chronological order: the first
\* returned row is the one of the largest rank of the page.
C13_PageOverRecencyReturnedAscending ==
    (last.op = "getMessages" /\ last.code = 200) =>
        LET limit  == IF last.body[1] = 0 THEN DefaultLimit ELSE last.body[1]
            offset == last.body[2]
            seen   == SeenBy(last.id, last.userId)
            n      == Cardinality(seen)
            upto   == IF offset + limit < n THEN offset + limit ELSE n
            size   == IF upto > offset THEN upto - offset ELSE 0
        IN  /\ Len(last.rows) = size
            /\ \E r \in ByRecency(seen) :
                  \A k \in DOMAIN last.rows :
                     last.rows[k].id = messages[r[offset + size + 1 - k]].id
            /\ \A k, l \in DOMAIN last.rows :
                  k < l => last.rows[k].created_at <= last.rows[l].created_at

\* the reader sees two messages of different times, asks for one row after
\* the first and receives the older message
C13_Witness ==
    /\ last.op = "getMessages" /\ last.code = 200
    /\ last.body = <<1, 1>>
    /\ Len(last.rows) = 1
    /\ Cardinality(SeenBy(last.id, last.userId)) = 2
    /\ \E i \in SeenBy(last.id, last.userId) :
          messages[i].created_at > last.rows[1].created_at

\* the reader receives a page of two messages of different times
C13_WitnessAscending ==
    /\ last.op = "getMessages" /\ last.code = 200
    /\ Len(last.rows) = 2
    /\ last.rows[1].created_at < last.rows[2].created_at

-----------------------------------------------------------------------------
(* Properties of the guards and of the frame of send and delete *)

\* C14, as stated: every send-message by a user who is not a participant of
\* the conversation is answered 403 and every send-message with empty content
\* is answered 400; the step that answers so inserts no message, removes no
\* soft-delete mark and leaves every updated_at.
C14_NonParticipantAlways403 ==
    [][last'.op = "sendMessage" =>
          /\ last'.userId \notin Participants(last'.id) => last'.code = 403
          /\ last'.body[1] = "" => last'.code = 400
          /\ last'.code \in {400, 403} =>
                /\ messages' = messages
                /\ deletedBy' = deletedBy
                /\ conversations' = conversations]_vars

\* C14, amended: a send-message with empty content is answered 400, by a
\* participant or not, and a send-message with content by a user who is not
\* a participant of the conversation is answered 403 (the content is
\* validated before the participation is looked up); the step that answers
\* 400 or 403 inserts no message, removes no soft-delete mark and leaves
\* every updated_at.
C14_RejectedSendChangesNothing ==
    [][last'.op = "sendMessage" =>
          /\ last'.body[1] = "" => last'.code = 400
          /\ (last'.body[1] # "" /\ last'.userId \notin Participants(last'.id))
                => last'.code = 403
          /\ last'.code \in {400, 403} =>
                /\ last'.body[1] = "" \/ last'.userId \notin Participants(last'.id)
                /\ messages' = messages
                /\ deletedBy' = deletedBy
                /\ conversations' = conversations]_vars

\* a user outside of a conversation that holds a message and a mark was
\* refused with 403
C14_Witness ==
    /\ last.op = "sendMessage" /\ last.code = 403
    /\ Participants(last.id) # {}
    /\ MessagesOf(last.id) # {}
    /\ \E d \in deletedBy : d.conversation_id = last.id

\* a participant who sent no content was refused with 400 while the other
\* participant holds a mark
C14_WitnessEmpty ==
    /\ last.op = "sendMessage" /\ last.code = 400
    /\ last.userId \in Participants(last.id)
    /\ \E d \in deletedBy : d.conversation_id = last.id /\ d.user_id # last.userId

\* the ids a request may name as a conversation
ConversationIds == 1 .. (MaxConversations + 1)

\* the soft-delete marks a user holds
MarksOf(userId) == {d \in deletedBy : d.user_id = userId}

\* C15: no step of a send-message handler changes the soft-delete marks of
\* the sender, and when the handler has answered 201 nobody but the sender
\* holds a mark on the conversation: the other participant's mark is removed,
\* the sender's own mark stays and the conversation stays out of the sender's
\* own list.
C15_SendRemovesOnlyCounterpartMark ==
    [][\A u \in Users, c \in ConversationIds :
          (h[1].op = "sendMessage" /\ h[1].userId = u /\ h[1].id = c) =>
             /\ MarksOf(u)' = MarksOf(u)
             /\ deletedBy' \subseteq deletedBy
             /\ (last'.op = "sendMessage" /\ last'.code = 201) =>
                   /\ \A d \in deletedBy' : d.conversation_id = c => d.user_id = u
                   /\ (\E d \in MarksOf(u) : d.conversation_id = c)
                         => c \notin Ids(ListedConversations(u))']_vars

\* both participants had deleted the conversation when one of them sent a
\* message: the other's mark was removed, the sender's is still there
C15_Witness ==
    /\ SentNow
    /\ \E d \in last.marks : d.conversation_id = last.id /\ d.user_id # last.userId
    /\ \E d \in MarksOf(last.userId) : d.conversation_id = last.id

\* C16: a delete-conversation by a user who is not a participant is answered
\* 403 and changes no mark; one by a participant is answered 200, leaves the
\* caller's mark as it was when there was one (deleted_at stays the time of
\* the first delete), creates the mark otherwise and changes nobody else's;
\* no (conversation, user) ever has two marks.
C16_DeleteIsIdempotent ==
    [][/\ \A u \in Users, c \in ConversationIds :
            (last'.op = "deleteConversation" /\ last'.userId = u /\ last'.id = c) =>
               IF u \in Participants(c)
               THEN /\ last'.code = 200
                    /\ SelectDeletion(c, u) # {} => deletedBy' = deletedBy
                    /\ Cardinality(SelectDeletion(c, u)') = 1
                    /\ deletedBy' \ SelectDeletion(c, u)' = deletedBy \ SelectDeletion(c, u)
               ELSE /\ last'.code = 403
                    /\ deletedBy' = deletedBy
       /\ \A d, e \in deletedBy' :
            (d.conversation_id = e.conversation_id /\ d.user_id = e.user_id) => d = e]_vars

\* a participant has deleted the conversation again, later than the first
\* time: the mark still carries the time of the first delete
C16_Witness ==
    /\ last.op = "deleteConversation" /\ last.code = 200
    /\ \E d \in SelectDeletion(last.id, last.userId) : d.deleted_at < now

\* C17: no step of a delete-conversation handler of user u for conversation c
\* deletes or changes a conversation row or a message row, and for every other
\* user, the other participant of c included, the conversation list, the
\* messages of c that the message query selects from and the pages it returns
\* are the same after the step as before it.
C17_DeleteIsPerViewer ==
    [][\A u \in Users, c \in ConversationIds :
          (\/ last'.op = "deleteConversation" /\ last'.userId = u /\ last'.id = c
           \/ h'[1].op = "deleteConversation" /\ h'[1].userId = u /\ h'[1].id = c) =>
             /\ conversations' = conversations
             /\ messages' = messages
             /\ \A q \in Users \ {u} :
                   /\ ListedConversations(q)' = ListedConversations(q)
                   /\ VisibleMessages(c, SelectDeletion(c, q))'
                         = VisibleMessages(c, SelectDeletion(c, q))
                   /\ MessagePages(c, SelectDeletion(c, q), 0, 0)'
                         = MessagePages(c, SelectDeletion(c, q), 0, 0)]_vars

\* a participant has deleted a conversation that holds a message: the mark is
\* theirs alone, the other participant still lists the conversation and is
\* still shown the message
C17_Witness ==
    /\ last.op = "deleteConversation" /\ last.code = 200
    /\ SelectDeletion(last.id, last.userId) # {}
    /\ \E q \in Participants(last.id) \ {last.userId} :
          /\ last.id \in Ids(ListedConversations(q))
          /\ \E page \in MessagePages(last.id, SelectDeletion(last.id, q), 0, 0) :
                page # <<>>

-----------------------------------------------------------------------------
(* Properties of alert sending and of the contact list *)

\* the rows of location_alerts from a sender to a receiver
AlertsFromTo(userId, contactUserId) ==
    {i \in DOMAIN alerts :
        alerts[i].user_id = userId /\ alerts[i].contact_user_id = contactUserId}

\* C18: when a send-alert of sender S to a contact has run its statements, the
\* incoming alerts of the contact hold exactly one active entry from S, that
\* entry carries the coordinates of this send-alert, and every earlier alert
\* from S to the contact is inactive with ended_at set.
C18_LatestAlertSupersedes ==
    (last.op = "sendAlert" /\ last.code \notin {400, 403}) =>
        LET entries == {e \in IncomingLocations(last.id) : e.user_id = last.userId} IN
        /\ Cardinality(entries) = 1
        /\ \A e \in entries :
              /\ e.latitude = last.body[1]
              /\ e.longitude = last.body[2]
              /\ \A i \in AlertsFromTo(last.userId, last.id) :
                    alerts[i].id # e.alert_id =>
                       /\ alerts[i].alert_status = "inactive"
                       /\ alerts[i].ended_at # Null

\* the rows of user_contacts that are the edge from an owner to a target
Edges(userId, contactUserId) ==
    {i \in DOMAIN contacts :
        contacts[i].user_id = userId /\ contacts[i].contact_user_id = contactUserId}

\* C19: a send-alert of user u to a user c whom u has not added as a contact
\* when the request arrives is answered 403 in the step of its arrival, which
\* changes no row of the alerts, of the location snapshots or of the contacts,
\* and no handler goes on to its statements without the edge; an edge from c
\* to u does not authorize it.  A send-alert answered 403 is one from a user
\* without the edge.
C19_AlertNeedsDirectedEdge ==
    [][/\ \A u \in Users, c \in Users :
            (last'.op = "sendAlert" /\ last'.userId = u /\ last'.id = c) =>
               /\ (Edges(u, c) = {} /\ h' = h) =>
                     /\ last'.code = 403
                     /\ alerts' = alerts
                     /\ tracking' = tracking
                     /\ contacts' = contacts
               /\ last'.code = 403 =>
                     /\ Edges(u, c) = {}
                     /\ alerts' = alerts
                     /\ tracking' = tracking
                     /\ contacts' = contacts
       /\ \A s \in Slots :
            (h[s].op = "idle" /\ h'[s].op = "sendAlert")
               => Edges(h'[s].userId, h'[s].id) # {}]_vars

\* a user was refused an alert to somebody who has added them as a contact
\* and whom they have not added, while an alert is active
C19_Witness ==
    /\ last.op = "sendAlert" /\ last.code = 403
    /\ Edges(last.userId, last.id) = {}
    /\ Edges(last.id, last.userId) # {}
    /\ \E i \in DOMAIN alerts : alerts[i].alert_status = "active"

\* C20: an add-contact of a user u for an existing user c is answered 201 and
\* leaves exactly one edge from u to c, however often it is repeated; its step
\* keeps the id, the owner, the target and created_at of every existing row
\* (a repeated add refreshes updated_at alone, a column nothing reads) and adds
\* no row but that edge, so never the edge from c to u; the contact list of a
\* user returns exactly the targets of the user's edges, each once.
C20_AddContactIsDirectedAndIdempotent ==
    [][/\ \A u \in Users, c \in Users \cup NonUsers :
            (/\ last'.op = "addContact" /\ last'.userId = u /\ last'.id = c
             /\ IsUser(u) /\ IsUser(c)) =>
               /\ last'.code = 201
               /\ Cardinality(Edges(u, c)') = 1
               /\ Edges(u, c) # {} => contacts' = contacts
               /\ \A i \in DOMAIN contacts' :
                     IF i \in DOMAIN contacts
                     THEN contacts'[i] = contacts[i]
                     ELSE contacts'[i].user_id = u /\ contacts'[i].contact_user_id = c
       /\ \A u \in Users :
            (last'.op = "listContacts" /\ last'.userId = u) =>
               /\ {last'.rows[k].contact_user_id : k \in DOMAIN last'.rows}
                    = {c \in Users \cup NonUsers : Edges(u, c)' # {}}
               /\ Len(last'.rows)
                    = Cardinality({c \in Users \cup NonUsers : Edges(u, c)' # {}})]_vars

\* an owner has added again a contact who is not their latest: the answer is
\* the row of the first add, and the contact has no edge to the owner
C20_Witness ==
    /\ last.op = "addContact" /\ last.code = 201
    /\ last.userId # last.id
    /\ Len(last.rows) = 1
    /\ \E c \in Range(contacts) : c.id > last.rows[1].id
    /\ last.rows[1].created_at < now
    /\ Edges(last.id, last.userId) = {}

\* an owner lists two contacts while one of them has no edge to the owner
C20_WitnessList ==
    /\ last.op = "listContacts"
    /\ Len(last.rows) = 2
    /\ \E k \in DOMAIN last.rows : Edges(last.rows[k].contact_user_id, last.userId) = {}

-----------------------------------------------------------------------------
(* Properties of stopping alerts and of the incoming alerts *)

\* C21: a stop-alert that names an existing alert and comes from a user who
\* is not the alert's sender is answered 403, not the 404 of an alert that
\* does not exist, and its step leaves the alerts as they are.
C21_StopByOtherIsForbidden ==
    [][\A u \in Users, a \in Range(alerts) :
          (last'.op = "stopAlert" /\ last'.userId = u /\ last'.id = a.id
             /\ a.user_id # u) =>
                /\ last'.code = 403
                /\ alerts' = alerts]_vars

\* C22: a stop-alert of the alert's sender is answered 200 and leaves the
\* alert inactive with ended_at set, whether the alert was active or not, and
\* changes no other alert; no step of a stop-alert turns an inactive alert
\* active.
C22_StopBySenderAlwaysSucceeds ==
    [][\A u \in Users, a \in AlertIds :
          (last'.op = "stopAlert" /\ last'.userId = u /\ last'.id = a) =>
             /\ (\E r \in WithId(alerts, a) : r.user_id = u) =>
                   /\ last'.code = 200
                   /\ \A r2 \in WithId(alerts', a) :
                         r2.alert_status = "inactive" /\ r2.ended_at # Null
             /\ DOMAIN alerts' = DOMAIN alerts
             /\ \A i \in DOMAIN alerts :
                   /\ alerts[i].id # a => alerts'[i] = alerts[i]
                   /\ alerts'[i].id = alerts[i].id
                   /\ alerts[i].alert_status = "inactive"
                         => alerts'[i].alert_status = "inactive"]_vars

\* the sender has stopped an alert that a newer alert to the same contact had
\* superseded, later than it ended the first time
C22_Witness ==
    /\ last.op = "stopAlert" /\ last.code = 200
    /\ \E r \in WithId(alerts, last.id) :
          /\ r.alert_status = "inactive"
          /\ \E j \in DOMAIN alerts :
                /\ alerts[j].id > r.id
                /\ alerts[j].user_id = r.user_id
                /\ alerts[j].contact_user_id = r.contact_user_id
                /\ alerts[j].started_at < r.ended_at

\* the active alerts addressed to a user
ActiveAlertsTo(userId) ==
    {i \in DOMAIN alerts :
        alerts[i].contact_user_id = userId /\ alerts[i].alert_status = "active"}

\* C23: the incoming alerts a viewer receives hold exactly one entry per
\* active alert addressed to the viewer and no other entry; an entry carries
\* the alert's sender and start time and the sender's location snapshot, null
\* when the sender has none; the entries come by start time descending.
C23_IncomingAlertsAreTheActiveOnes ==
    last.op = "contactLocations" =>
        /\ last.code = 200
        /\ Len(last.rows) = Cardinality(ActiveAlertsTo(last.userId))
        /\ {last.rows[k].alert_id : k \in DOMAIN last.rows}
             = {alerts[i].id : i \in ActiveAlertsTo(last.userId)}
        /\ \A k \in DOMAIN last.rows :
              \E i \in ActiveAlertsTo(last.userId) :
                 /\ alerts[i].id = last.rows[k].alert_id
                 /\ alerts[i].user_id = last.rows[k].user_id
                 /\ alerts[i].started_at = last.rows[k].started_at
                 /\ IF \E j \in DOMAIN tracking : tracking[j].user_id = alerts[i].user_id
                    THEN \E j \in DOMAIN tracking :
                            /\ tracking[j].user_id = alerts[i].user_id
                            /\ tracking[j].latitude = last.rows[k].latitude
                            /\ tracking[j].longitude = last.rows[k].longitude
                    ELSE /\ last.rows[k].latitude = Null
                         /\ last.rows[k].longitude = Null
        /\ \A k, l \in DOMAIN last.rows :
              k < l => last.rows[k].started_at >= last.rows[l].started_at

\* a viewer receives one entry, of the later of two alerts addressed to them,
\* while the earlier one has been stopped
C23_Witness ==
    /\ last.op = "contactLocations"
    /\ Len(last.rows) = 1
    /\ \E i \in DOMAIN alerts :
          /\ alerts[i].contact_user_id = last.userId
          /\ alerts[i].alert_status = "inactive"
          /\ alerts[i].user_id # last.rows[1].user_id
          /\ alerts[i].started_at < last.rows[1].started_at

\* a viewer receives the alerts of two senders, the later one first
C23_WitnessOrder ==
    /\ last.op = "contactLocations"
    /\ Len(last.rows) = 2
    /\ last.rows[1].alert_id > last.rows[2].alert_id
    /\ last.rows[1].started_at > last.rows[2].started_at

\* a viewer receives nothing while an alert addressed to somebody else is
\* active
C23_WitnessOthers ==
    /\ last.op = "contactLocations"
    /\ last.rows = <<>>
    /\ \E i \in DOMAIN alerts : alerts[i].alert_status = "active"

-----------------------------------------------------------------------------
(* Properties of the location snapshot and of the atomicity of send-alert *)

\* the snapshot rows of a user
SnapshotsOf(userId) == {i \in DOMAIN tracking : tracking[i].user_id = userId}

\* C24: no user ever has two snapshot rows, and when an update-location with
\* coordinates, or a send-alert to a contact, has answered, the user's one
\* snapshot row holds the coordinates of that request.
C24_OneSnapshotPerUserHoldsLatest ==
    /\ \A u \in Users : Cardinality(SnapshotsOf(u)) <= 1
    /\ (last.op \in {"updateLocation", "sendAlert"} /\ last.code \notin {400, 403}) =>
          /\ Cardinality(SnapshotsOf(last.userId)) = 1
          /\ \A i \in SnapshotsOf(last.userId) :
                /\ tracking[i].latitude = last.body[1]
                /\ tracking[i].longitude = last.body[2]

\* C25: when a send-alert handler answers with an error, the alert row it
\* inserted is not in the table and the alerts it found are as they were; when
\* it answers 201, the row it inserted is in the table, it is the only active
\* alert of the pair and the sender's snapshot holds the coordinates sent.
C25_SendAlertIsAllOrNothing ==
    [][\A u \in Users, c \in Users :
          (last'.op = "sendAlert" /\ last'.userId = u /\ last'.id = c) =>
             IF last'.code = 201
             THEN /\ \A r \in Range(h[1].rows) : r \in Range(alerts')
                  /\ Cardinality({i \in AlertsFromTo(u, c)' :
                                     alerts'[i].alert_status = "active"}) = 1
                  /\ \E i \in DOMAIN tracking' :
                        /\ tracking'[i].user_id = u
                        /\ tracking'[i].latitude = last'.body[1]
                        /\ tracking'[i].longitude = last'.body[2]
             ELSE \A r \in Range(h[1].rows) : r \notin Range(alerts')]_vars

-----------------------------------------------------------------------------
(* Properties of atomicity and of interleaved requests *)

\* C26: whenever no accept handler is in progress, every invitation with
\* status accepted has the conversation row of its sender and receiver, also
\* after an accept handler failed between its statements.
C26_AcceptedImpliesConversation ==
    (\A s \in Slots : h[s].op # "accept") =>
        \A i \in DOMAIN invitations :
            invitations[i].status = "accepted" =>
               ConversationsBetween(invitations[i].sender_id,
                                    invitations[i].receiver_id) # {}

\* C27: whenever no handler is in progress, no user holds a soft-delete mark
\* on a conversation that contains a message of the other participant created
\* later than the mark's deleted_at.
C27_NoCounterpartMessageBehindMark ==
    (\A s \in Slots : h[s].op = "idle") =>
        \A d \in deletedBy :
            \A i \in DOMAIN messages :
               (messages[i].conversation_id = d.conversation_id
                  /\ messages[i].sender_id # d.user_id)
                 => messages[i].created_at <= d.deleted_at

\* C29: when a get-messages of a reader who holds no soft-delete mark, with
\* a limit of at least the number of messages, answers, every message its step
\* turns from unread to read is among the messages it returns.
C29_ReadImpliesDelivered ==
    [][(last'.op = "getMessages" /\ last'.code = 200 /\ last'.marks = {}
          /\ EffectiveLimit(last'.body[1]) >= Len(messages) /\ last'.body[2] = 0) =>
             \A i \in DOMAIN messages :
                (messages'[i].is_read /\ ~messages[i].is_read) =>
                   \E k \in DOMAIN last'.rows : last'.rows[k].id = messages[i].id]_vars

\* C28: no step overwrites the status accepted of an invitation with canceled,
\* and no accept handler inserts a conversation while its invitation is
\* canceled.
C28_CancelAndAcceptExclude ==
    [][/\ \A r \in Range(invitations) : \A r2 \in WithId(invitations', r.id) :
            r.status = "accepted" => r2.status # "canceled"
       /\ \A s \in Slots :
            (h[s].op = "accept" /\ h[s].pc = "insert" /\ conversations' # conversations)
               => \A i \in DOMAIN invitations :
                     invitations[i].id = h[s].id => invitations[i].status # "canceled"]_vars

\* C30: in every state, every active alert goes to a user whom its sender
\* has as a contact: the sender has an edge to the receiver.
C30_ActiveAlertsFollowContacts ==
    \A i \in DOMAIN alerts :
        alerts[i].alert_status = "active"
          => Edges(alerts[i].user_id, alerts[i].contact_user_id) # {}

====
